---------------------------- MODULE Spec2Model ----------------------------
(***************************************************************************)
(* A model of the LCRA flood-status scraper (src/scraper/__init__.py):     *)
(* the two value normalisers, parse_datetime and parse_float, and the      *)
(* async-context-manager life cycle of LCRAFloodDataScraper.               *)
(*                                                                         *)
(* Text is a sequence of one-character strings.  A Python value is a       *)
(* record with a "kind" field.  A float is kept as an exact decimal        *)
(* (-1)^neg * digs * 10^exp with digs not divisible by 10; the inputs of   *)
(* the model have at most nine significant digits, for which the decimal   *)
(* and the IEEE double determine each other and repr() prints exactly the  *)
(* digits of digs.  Texts are ASCII: \d is "0".."9" and \s is blank, tab   *)
(* and newline.                                                            *)
(***************************************************************************)
EXTENDS Integers, Sequences, FiniteSets, TLC

VARIABLES
    fn,        \* normaliser being called: "parse_datetime" or "parse_float"
    arg,       \* the argument `text` of the call
    pc,        \* position in the call: "guard", "iso", "patterns", "done", "raised"
    idx,       \* index into `patterns` of the loop of parse_datetime (1-based)
    tried,     \* history: the strategies parse_datetime has attempted, in order
    result,    \* the returned value, or the exception that left the call
    first,     \* parse_float: the value of the first call when str() of it is parsed again
    session,   \* LCRAFloodDataScraper.session: 0 is None, else the id of a client
    clients,   \* clients[id] is "open" or "closed": the httpx.AsyncClient objects made
    ctx,       \* history: "new", "entered" or "exited" (the async context)
    last       \* history: the last fetch_api_data call and how it ended

nvars == <<fn, arg, pc, idx, tried, result, first>>
svars == <<session, clients, ctx, last>>
vars == <<fn, arg, pc, idx, tried, result, first, session, clients, ctx, last>>

(***************************************************************************)
(* Bounds of the model.                                                    *)
(***************************************************************************)
MaxLen == 3        \* longest text drawn freely from the small alphabets
MaxClients == 3    \* most AsyncClient objects one scraper creates

(***************************************************************************)
(* Python values.                                                          *)
(***************************************************************************)
NoValue == [kind |-> "None"]
Str(s) == [kind |-> "str", s |-> s]
PyInt(n) == [kind |-> "int", v |-> n]
PyDict == [kind |-> "dict"]
Raise(e) == [kind |-> "raise", exc |-> e]
Unset == [kind |-> "unset"]

RECURSIVE Norm(_, _, _)
Norm(neg, digs, exp) ==
    IF digs = 0 THEN [kind |-> "float", neg |-> neg, digs |-> 0, exp |-> 0]
    ELSE IF digs % 10 = 0 THEN Norm(neg, digs \div 10, exp + 1)
    ELSE [kind |-> "float", neg |-> neg, digs |-> digs, exp |-> exp]

\* Python's == on floats: -0.0 == 0.0.
FloatEq(a, b) ==
    /\ a.kind = "float" /\ b.kind = "float"
    /\ a.digs = b.digs /\ a.exp = b.exp
    /\ (a.digs = 0 \/ a.neg = b.neg)

\* float(v) of an int.
FloatOfInt(n) == IF n < 0 THEN Norm(TRUE, 0 - n, 0) ELSE Norm(FALSE, n, 0)

(***************************************************************************)
(* Characters and text.                                                    *)
(***************************************************************************)
Digits == {"0", "1", "2", "3", "4", "5", "6", "7", "8", "9"}
Whitespace == {" ", "\t", "\n"}
IsDigit(c) == c \in Digits
IsSpace(c) == c \in Whitespace

DigitVal(c) ==
    CASE c = "0" -> 0 [] c = "1" -> 1 [] c = "2" -> 2 [] c = "3" -> 3
      [] c = "4" -> 4 [] c = "5" -> 5 [] c = "6" -> 6 [] c = "7" -> 7
      [] c = "8" -> 8 [] c = "9" -> 9

DigitChar(d) ==
    CASE d = 0 -> "0" [] d = 1 -> "1" [] d = 2 -> "2" [] d = 3 -> "3"
      [] d = 4 -> "4" [] d = 5 -> "5" [] d = 6 -> "6" [] d = 7 -> "7"
      [] d = 8 -> "8" [] d = 9 -> "9"

\* The character at position i, or "" past either end.
At(s, i) == IF i >= 1 /\ i <= Len(s) THEN s[i] ELSE ""

AllDigits(s) == \A k \in 1..Len(s) : IsDigit(s[k])

\* int() of a string of decimal digits.
RECURSIVE IntOf(_)
IntOf(s) ==
    IF s = <<>> THEN 0
    ELSE 10 * IntOf(SubSeq(s, 1, Len(s) - 1)) + DigitVal(s[Len(s)])

\* The decimal digits of a natural number.
RECURSIVE DigitsOf(_)
DigitsOf(n) ==
    IF n < 10 THEN <<DigitChar(n)>>
    ELSE Append(DigitsOf(n \div 10), DigitChar(n % 10))

RECURSIVE Zeros(_)
Zeros(n) == IF n <= 0 THEN <<>> ELSE <<"0">> \o Zeros(n - 1)

Contains(s, c) == \E k \in 1..Len(s) : s[k] = c

\* str.split(c) for a one-character separator.
Split(s, c) ==
    LET RECURSIVE go(_, _, _)
        go(i, cur, acc) ==
            IF i > Len(s) THEN Append(acc, cur)
            ELSE IF s[i] = c THEN go(i + 1, <<>>, Append(acc, cur))
            ELSE go(i + 1, Append(cur, s[i]), acc)
    IN go(1, <<>>, <<>>)

\* str.replace(c, "").
Remove(s, c) == SelectSeq(s, LAMBDA x : x # c)

\* str.strip().
Strip(s) ==
    LET keep == {k \in 1..Len(s) : ~IsSpace(s[k])}
        lo == CHOOSE k \in keep : \A j \in keep : k <= j
        hi == CHOOSE k \in keep : \A j \in keep : k >= j
    IN IF keep = {} THEN <<>> ELSE SubSeq(s, lo, hi)

\* Every text over an alphabet of length at most n.
RECURSIVE Texts(_, _)
Texts(alphabet, n) ==
    IF n = 0 THEN {<<>>}
    ELSE LET shorter == Texts(alphabet, n - 1)
         IN shorter \cup {Append(t, c) : t \in shorter, c \in alphabet}

(***************************************************************************)
(* parse_float.                                                            *)
(***************************************************************************)

\* `not text`: Python's truth value of the argument.
Falsy(x) ==
    \/ x.kind = "None"
    \/ x.kind = "str" /\ x.s = <<>>
    \/ x.kind = "int" /\ x.v = 0
    \/ x.kind = "float" /\ x.digs = 0

\* text in ["/", "N/A", "n/a", "--", None]
FLOAT_SENTINELS == {<<"/">>, <<"N", "/", "A">>, <<"n", "/", "a">>, <<"-", "-">>}
InSentinels(x) ==
    \/ x.kind = "None"
    \/ x.kind = "str" /\ x.s \in FLOAT_SENTINELS

\* What the guard of parse_float returns.
SentinelResultZero == Norm(FALSE, 0, 0)
SentinelResult == NoValue

\* re.sub(r"[^\d.-]", "", text.strip())
CleanKeepsComma(s) ==
    SelectSeq(Strip(s), LAMBDA c : IsDigit(c) \/ c = "." \/ c = "-" \/ c = ",")
Clean(s) == SelectSeq(Strip(s), LAMBDA c : IsDigit(c) \/ c = "." \/ c = "-")

\* float(cleaned) for a text of digits, "." and "-": an optional sign, then
\* digits with at most one "." and at least one digit; else ValueError.
PyFloat(s) ==
    LET neg  == At(s, 1) = "-"
        body == IF neg THEN Tail(s) ELSE s
        dots == {k \in 1..Len(body) : body[k] = "."}
        dot  == CHOOSE k \in dots : TRUE
        ds   == Remove(body, ".")
    IN IF \/ Cardinality(dots) > 1
          \/ Contains(body, "-")
          \/ ds = <<>>
          \/ ~AllDigits(ds)
       THEN Raise("ValueError")
       ELSE Norm(neg, IntOf(ds), IF dots = {} THEN 0 ELSE 0 - (Len(body) - dot))

\* except ValueError: return None
FloatHandler(r) ==
    IF r.kind = "raise" /\ r.exc = "ValueError" THEN NoValue ELSE r

parse_float(text) ==
    IF Falsy(text) \/ InSentinels(text) THEN SentinelResult
    ELSE IF text.kind = "int" THEN FloatOfInt(text.v)
    ELSE IF text.kind = "float" THEN text
    ELSE IF text.kind = "str" THEN
        LET cleaned == Clean(text.s)
        IN IF cleaned = <<>> THEN NoValue
           ELSE FloatHandler(PyFloat(cleaned))
    ELSE NoValue

\* str(x) of a float: repr's shortest digits, in exponent form when the
\* decimal point lies left of -4 or right of 16.
FloatRepr(f) ==
    LET ds    == DigitsOf(f.digs)
        n     == Len(ds)
        decpt == n + f.exp
        sign  == IF f.neg THEN <<"-">> ELSE <<>>
        e     == decpt - 1
        ea    == IF e < 0 THEN 0 - e ELSE e
        expo  == <<"e", IF e < 0 THEN "-" ELSE "+">>
                 \o (IF ea < 10 THEN <<"0">> ELSE <<>>) \o DigitsOf(ea)
    IN sign \o
       (IF decpt <= 0 - 4 \/ decpt > 16
        THEN <<ds[1]>> \o (IF n > 1 THEN <<".">> \o Tail(ds) ELSE <<>>) \o expo
        ELSE IF decpt <= 0 THEN <<"0", ".">> \o Zeros(0 - decpt) \o ds
        ELSE IF decpt >= n THEN ds \o Zeros(decpt - n) \o <<".", "0">>
        ELSE SubSeq(ds, 1, decpt) \o <<".">> \o SubSeq(ds, decpt + 1, n))

(***************************************************************************)
(* datetime values.                                                        *)
(***************************************************************************)
IsLeap(y) == (y % 4 = 0 /\ y % 100 # 0) \/ y % 400 = 0

DaysInMonth(y, m) ==
    IF m = 2 THEN (IF IsLeap(y) THEN 29 ELSE 28)
    ELSE IF m \in {4, 6, 9, 11} THEN 30 ELSE 31

\* datetime(year, month, day, hour, minute, second, tzinfo=tz); tz is <<>> for a
\* naive value and <<minutes>> for an aware one.
DatetimeNew(y, m, d, hh, mi, ss, tz) ==
    IF /\ y \in 1..9999 /\ m \in 1..12 /\ d >= 1 /\ d <= DaysInMonth(y, m)
       /\ hh \in 0..23 /\ mi \in 0..59 /\ ss \in 0..59
    THEN [kind |-> "datetime", year |-> y, month |-> m, day |-> d,
          hour |-> hh, minute |-> mi, second |-> ss, tz |-> tz]
    ELSE Raise("ValueError")

(***************************************************************************)
(* datetime.fromisoformat, for YYYY-MM-DD[*HH[:MM[:SS]][+HH:MM|-HH:MM]]    *)
(* (fractions of a second are not modelled).                               *)
(***************************************************************************)
IsoTime(ts) ==
    LET n == Len(ts)
        ok == /\ n \in {2, 5, 8}
              /\ \A k \in 1..n : IF k \in {3, 6} THEN ts[k] = ":" ELSE IsDigit(ts[k])
    IN IF ~ok THEN Raise("ValueError")
       ELSE [kind |-> "time",
             hour |-> IntOf(SubSeq(ts, 1, 2)),
             minute |-> IF n >= 5 THEN IntOf(SubSeq(ts, 4, 5)) ELSE 0,
             second |-> IF n >= 8 THEN IntOf(SubSeq(ts, 7, 8)) ELSE 0]

FromIsoFormat(s) ==
    LET dateOk == /\ Len(s) >= 10
                  /\ \A k \in 1..10 : IF k \in {5, 8} THEN s[k] = "-" ELSE IsDigit(s[k])
        y  == IntOf(SubSeq(s, 1, 4))
        m  == IntOf(SubSeq(s, 6, 7))
        d  == IntOf(SubSeq(s, 9, 10))
        ts == SubSeq(s, 12, Len(s))
        signs == {k \in 1..Len(ts) : ts[k] \in {"+", "-"}}
        cut == IF signs = {} THEN Len(ts) + 1
               ELSE CHOOSE k \in signs : \A j \in signs : k <= j
        tm == IsoTime(SubSeq(ts, 1, cut - 1))
        off == IsoTime(SubSeq(ts, cut + 1, Len(ts)))
        mins == off.hour * 60 + off.minute
    IN IF ~dateOk THEN Raise("ValueError")
       ELSE IF Len(s) = 10 THEN DatetimeNew(y, m, d, 0, 0, 0, <<>>)
       ELSE IF tm.kind = "raise" THEN tm
       ELSE IF signs = {} THEN
            DatetimeNew(y, m, d, tm.hour, tm.minute, tm.second, <<>>)
       ELSE IF off.kind = "raise" \/ off.hour > 23 \/ off.minute > 59 THEN Raise("ValueError")
       ELSE DatetimeNew(y, m, d, tm.hour, tm.minute, tm.second,
                        <<IF ts[cut] = "-" THEN 0 - mins ELSE mins>>)

(***************************************************************************)
(* datetime.strptime.  A format is a sequence of directives and literal    *)
(* characters; a directive tries its two-character alternatives before its *)
(* one-character one, as the regular expression _strptime builds does.     *)
(***************************************************************************)
Directives == {"%m", "%d", "%Y", "%I", "%H", "%M", "%S", "%p"}

Upper(c) ==
    CASE c = "a" -> "A" [] c = "p" -> "P" [] c = "m" -> "M" [] OTHER -> c

\* Whether directive dv accepts the n characters of s at pos.
Accepts(dv, s, pos, n) ==
    LET a == At(s, pos)
        b == At(s, pos + 1)
        two == IF IsDigit(a) /\ IsDigit(b) THEN IntOf(<<a, b>>) ELSE 0 - 1
    IN CASE dv \in {"%m", "%I"} ->
              IF n = 2 THEN two \in 1..12 ELSE n = 1 /\ IsDigit(a) /\ a # "0"
         [] dv = "%d" ->
              IF n = 2 THEN two \in 1..31 \/ (a = " " /\ IsDigit(b) /\ b # "0")
              ELSE n = 1 /\ IsDigit(a) /\ a # "0"
         [] dv = "%H" -> IF n = 2 THEN two \in 0..23 ELSE n = 1 /\ IsDigit(a)
         [] dv = "%M" -> IF n = 2 THEN two \in 0..59 ELSE n = 1 /\ IsDigit(a)
         [] dv = "%S" -> IF n = 2 THEN two \in 0..61 ELSE n = 1 /\ IsDigit(a)
         [] dv = "%Y" -> n = 4 /\ \A k \in 0..3 : IsDigit(At(s, pos + k))
         [] dv = "%p" -> n = 2 /\ Upper(a) \in {"A", "P"} /\ Upper(b) = "M"

FieldValue(dv, s, pos, n) ==
    IF dv = "%p" THEN (IF Upper(At(s, pos)) = "P" THEN 1 ELSE 0)
    ELSE IntOf(SelectSeq(SubSeq(s, pos, pos + n - 1), IsDigit))

StrpFail == [ok |-> FALSE]

RECURSIVE StrpMatch(_, _, _, _, _)
StrpMatch(fmt, k, s, pos, vals) ==
    IF k > Len(fmt) THEN
        IF pos = Len(s) + 1 THEN [ok |-> TRUE, vals |-> vals] ELSE StrpFail
    ELSE LET f == fmt[k]
             take(n) == StrpMatch(fmt, k + 1, s, pos + n,
                                  [vals EXCEPT ![f] = FieldValue(f, s, pos, n)])
         IN IF f \in Directives THEN
                 IF f = "%Y" THEN
                     (IF Accepts(f, s, pos, 4) THEN take(4) ELSE StrpFail)
                 ELSE LET r2 == IF Accepts(f, s, pos, 2) THEN take(2) ELSE StrpFail
                      IN IF r2.ok THEN r2
                         ELSE IF Accepts(f, s, pos, 1) THEN take(1) ELSE StrpFail
            ELSE IF f = " " THEN
                 \* whitespace in a format matches \s+; date_str holds single spaces
                 LET RECURSIVE sp(_)
                     sp(n) == IF n < 1 THEN StrpFail
                              ELSE LET r == StrpMatch(fmt, k + 1, s, pos + n, vals)
                                   IN IF r.ok THEN r ELSE sp(n - 1)
                     run == Cardinality({j \in pos..Len(s) :
                                \A i \in pos..j : IsSpace(s[i])})
                 IN sp(run)
            ELSE IF At(s, pos) = f THEN StrpMatch(fmt, k + 1, s, pos + 1, vals)
            ELSE StrpFail

StrptimeDefaults ==
    [d \in Directives |->
        CASE d = "%Y" -> 1900 [] d \in {"%m", "%d"} -> 1 [] d = "%p" -> 0 - 1
          [] OTHER -> 0]

Strptime(date_str, fmt) ==
    LET r == StrpMatch(fmt, 1, date_str, 1, StrptimeDefaults)
        v == r.vals
        h12 == v["%I"]
        hour == IF Contains(fmt, "%I")
                THEN (IF v["%p"] = 1
                      THEN (IF h12 # 12 THEN h12 + 12 ELSE h12)
                      ELSE (IF h12 = 12 THEN 0 ELSE h12))
                ELSE v["%H"]
    IN IF ~r.ok THEN Raise("ValueError")
       ELSE DatetimeNew(v["%Y"], v["%m"], v["%d"], hour, v["%M"], v["%S"], <<>>)

FMT_SLASH_12 == <<"%m", "/", "%d", "/", "%Y", " ", "%I", ":", "%M", ":", "%S", " ", "%p">>
FMT_DASH_12 == <<"%Y", "-", "%m", "-", "%d", " ", "%I", ":", "%M", ":", "%S", " ", "%p">>
FMT_SLASH_HMS == <<"%m", "/", "%d", "/", "%Y", " ", "%H", ":", "%M", ":", "%S">>
FMT_SLASH_HM == <<"%m", "/", "%d", "/", "%Y", " ", "%H", ":", "%M">>
FMT_DASH_HMS == <<"%Y", "-", "%m", "-", "%d", " ", "%H", ":", "%M", ":", "%S">>
FMT_DASH_HM == <<"%Y", "-", "%m", "-", "%d", " ", "%H", ":", "%M">>

(***************************************************************************)
(* re.search for the four patterns of parse_datetime.  A pattern is a      *)
(* sequence of elements: \d{lo,hi}, a literal, \s+ or \s*, the start and   *)
(* end of a group, and the optional group (AM|PM)?.  Quantifiers are       *)
(* greedy and give back one character at a time; the search returns the    *)
(* leftmost match.  re.IGNORECASE only matters to AM|PM.                   *)
(***************************************************************************)
D(lo, hi) == [t |-> "d", lo |-> lo, hi |-> hi]
L(c) == [t |-> "lit", c |-> c]
S(lo) == [t |-> "s", lo |-> lo]
Open(g) == [t |-> "open", g |-> g]
Close(g) == [t |-> "close", g |-> g]
AmPm(g) == [t |-> "ampm", g |-> g]

SLASH_DATE == <<Open(1), D(1, 2), L("/"), D(1, 2), L("/"), D(4, 4), Close(1)>>
DASH_DATE == <<Open(1), D(4, 4), L("-"), D(2, 2), L("-"), D(2, 2), Close(1)>>

\* The list `patterns`, in its order.
PATTERNS ==
    << SLASH_DATE \o <<S(1), Open(2), D(1, 2), L(":"), D(2, 2), L(":"), D(2, 2), Close(2),
                       S(0), AmPm(3)>>,
       SLASH_DATE \o <<S(1), Open(2), D(1, 2), L(":"), D(2, 2), Close(2), S(0), AmPm(3)>>,
       DASH_DATE \o <<S(1), Open(2), D(2, 2), L(":"), D(2, 2), L(":"), D(2, 2), Close(2)>>,
       DASH_DATE \o <<S(1), Open(2), D(2, 2), L(":"), D(2, 2), Close(2)>> >>

\* len(match.groups())
NGroups(pat) == Cardinality({k \in 1..Len(pat) : pat[k].t \in {"open", "ampm"}})

NoMatch == [ok |-> FALSE]
NoGroups == [g \in 1..3 |-> <<0, 0>>]

\* How many characters from pos on satisfy the class, at most max.
RECURSIVE RunLen(_, _, _, _)
RunLen(text, pos, digit, max) ==
    IF max = 0 \/ pos > Len(text) THEN 0
    ELSE IF (IF digit THEN IsDigit(text[pos]) ELSE IsSpace(text[pos]))
    THEN 1 + RunLen(text, pos + 1, digit, max - 1)
    ELSE 0

RECURSIVE MatchFrom(_, _, _, _, _)
RECURSIVE Greedy(_, _, _, _, _, _, _)
MatchFrom(pat, k, text, pos, caps) ==
    IF k > Len(pat) THEN [ok |-> TRUE, caps |-> caps, ngroups |-> NGroups(pat)]
    ELSE LET e == pat[k]
             next(p, c) == MatchFrom(pat, k + 1, text, p, c)
         IN CASE e.t = "lit" ->
                    IF At(text, pos) = e.c THEN next(pos + 1, caps) ELSE NoMatch
              [] e.t = "open" -> next(pos, [caps EXCEPT ![e.g] = <<pos, pos>>])
              [] e.t = "close" -> next(pos, [caps EXCEPT ![e.g] = <<caps[e.g][1], pos>>])
              [] e.t = "d" ->
                    Greedy(pat, k, text, pos, caps, RunLen(text, pos, TRUE, e.hi), e.lo)
              [] e.t = "s" ->
                    Greedy(pat, k, text, pos, caps, RunLen(text, pos, FALSE, Len(text)), e.lo)
              [] e.t = "ampm" ->
                    LET with == IF Upper(At(text, pos)) \in {"A", "P"}
                                   /\ Upper(At(text, pos + 1)) = "M"
                                THEN next(pos + 2, [caps EXCEPT ![e.g] = <<pos, pos + 2>>])
                                ELSE NoMatch
                    IN IF with.ok THEN with ELSE next(pos, caps)
Greedy(pat, k, text, pos, caps, n, lo) ==
    IF n < lo THEN NoMatch
    ELSE LET r == MatchFrom(pat, k + 1, text, pos + n, caps)
         IN IF r.ok THEN r ELSE Greedy(pat, k, text, pos, caps, n - 1, lo)

RECURSIVE SearchFrom(_, _, _)
SearchFrom(pat, text, start) ==
    IF start > Len(text) + 1 THEN NoMatch
    ELSE LET m == MatchFrom(pat, 1, text, start, NoGroups)
         IN IF m.ok THEN m ELSE SearchFrom(pat, text, start + 1)

\* re.search(pattern, text, re.IGNORECASE)
Search(pat, text) == SearchFrom(pat, text, 1)

\* match.group(g): the text of the group, <<>> when it took no part (None).
Group(text, m, g) == SubSeq(text, m.caps[g][1], m.caps[g][2] - 1)

(***************************************************************************)
(* parse_datetime.                                                         *)
(***************************************************************************)

\* if not text or text.strip() == "" or text == "/": return None
\* What the guard ends the call with, or "pass" when the call goes on; strip()
\* of an argument that is no text raises AttributeError.
Pass == [kind |-> "pass"]
GuardWithoutNotText(text) ==
    IF text.kind # "str" THEN Raise("AttributeError")
    ELSE IF Strip(text.s) = <<>> \/ text.s = <<"/">> THEN NoValue
    ELSE Pass
Guard(text) ==
    IF Falsy(text) THEN NoValue
    ELSE IF text.kind # "str" THEN Raise("AttributeError")
    ELSE IF Strip(text.s) = <<>> \/ text.s = <<"/">> THEN NoValue
    ELSE Pass

\* clean_text of the combined format: the date before the first "T", a
\* space, and the time up to the first "+", "-" or "Z".
IsoCleanTextKeepsMinus(text) ==
    Split(text, "T")[1] \o <<" ">>
        \o Split(Split(Split(text, "T")[2], "+")[1], "Z")[1]
IsoCleanText(text) ==
    Split(text, "T")[1] \o <<" ">>
        \o Split(Split(Split(Split(text, "T")[2], "+")[1], "-")[1], "Z")[1]

\* The combined-format attempt on a text that holds a "T".
IsoAttempt(text) == FromIsoFormat(Remove(IsoCleanText(text), "Z"))

\* The body of the loop for a match m: the strict parse of the groups.
ParseMatch(text, m) ==
    LET g1 == Group(text, m, 1)
        g2 == Group(text, m, 2)
        g3 == Group(text, m, 3)
        three == Contains(g2, ":") /\ Len(Split(g2, ":")) = 3
    IN IF m.ngroups >= 3 /\ g3 # <<>> THEN
            IF Contains(g1, "/")
            THEN Strptime(g1 \o <<" ">> \o g2 \o <<" ">> \o g3, FMT_SLASH_12)
            ELSE Strptime(g1 \o <<" ">> \o g2 \o <<" ">> \o g3, FMT_DASH_12)
       ELSE IF Contains(g1, "/")
            THEN Strptime(g1 \o <<" ">> \o g2, IF three THEN FMT_SLASH_HMS ELSE FMT_SLASH_HM)
            ELSE Strptime(g1 \o <<" ">> \o g2, IF three THEN FMT_DASH_HMS ELSE FMT_DASH_HM)

\* One pattern as a strategy: no match, or the strict parse of the match.
PatternAttempt(text, i) ==
    LET m == Search(PATTERNS[i], text)
    IN IF m.ok THEN ParseMatch(text, m) ELSE [kind |-> "nomatch"]

\* except ValueError: continue
HandlerCatchesTypeError(r) ==
    IF r.kind = "raise" /\ r.exc = "TypeError" THEN "continue" ELSE "propagate"
PatternHandler(r) ==
    IF r.kind = "raise" /\ r.exc = "ValueError" THEN "continue" ELSE "propagate"

\* `continue`, and the end of a turn without a match: on to the next pattern.
NextPatternLeavesLoop(i) == Len(PATTERNS) + 1
NextPattern(i) == i + 1

(***************************************************************************)
(* The arguments the calls are made with.                                  *)
(***************************************************************************)
DtDates ==
    { <<"1", "/", "5", "/", "2", "0", "2", "4">>,
      <<"1", "2", "/", "3", "1", "/", "1", "9", "9", "9">>,
      <<"2", "/", "3", "0", "/", "2", "0", "2", "4">>,
      <<"1", "3", "/", "5", "/", "2", "0", "2", "4">>,
      <<"2", "0", "2", "4", "-", "0", "1", "-", "0", "5">>,
      <<"2", "0", "2", "4", "-", "0", "2", "-", "2", "9">>,
      <<"2", "0", "2", "4", "-", "0", "2", "-", "3", "0">>,
      <<"0", "0", "0", "0", "-", "0", "1", "-", "0", "5">>,
      <<"2", "0", "2", "4", "-", "1", "-", "5">> }
DtTimes ==
    { <<"1", ":", "4", "5">>,
      <<"1", "3", ":", "4", "5">>,
      <<"1", ":", "4", "5", ":", "0", "0">>,
      <<"1", "3", ":", "4", "5", ":", "0", "0">>,
      <<"1", "2", ":", "0", "5", ":", "0", "9">>,
      <<"0", ":", "4", "5", ":", "0", "0">>,
      <<"1", "3", ":", "4", "5", ":", "6", "0">>,
      <<"2", "5", ":", "0", "0">> }
DtMeridiems ==
    { <<>>,
      <<" ", "P", "M">>,
      <<" ", "a", "m">>,
      <<"A", "M">> }
DtOffsets ==
    { <<>>,
      <<"Z">>,
      <<"+", "0", "5", ":", "3", "0">>,
      <<"-", "0", "6", ":", "0", "0">> }
DtPrefixes ==
    { <<>>,
      <<"U", "T", "C", " ">>,
      <<"1", "3", "/", "5", "/", "2", "0", "2", "4", " ", "1", ":", "4", "5", " ">> }
DtSamples ==
    { <<"g", "a", "r", "b", "a", "g", "e", " ", "t", "e", "x", "t">>,
      <<"2", "0", "2", "4", "-", "0", "1", "-", "0", "5", "T", "1", "3">>,
      <<"1", "/", "5", "/", "2", "0", "2", "4", " ", " ", "1", ":", "4", "5", ":", "0", "0", "P", "M">> }
FloatSamples ==
    { <<"6", "8", "1", ".", "3", " ", "f", "t">>,
      <<"1", ",", "2", "3", "4", ".", "5">>,
      <<"N", "/", "A">>,
      <<"n", "/", "a">>,
      <<"N", "/", "a">>,
      <<"n", "/", "A">>,
      <<" ", "N", "/", "A", " ">>,
      <<"-", "-">>,
      <<"/">>,
      <<"0", ".", "0", "0", "0", "0", "1">>,
      <<"1", "e", "5">>,
      <<"-", "1", "2", ".", "5", "0">>,
      <<"$", "1", ",", "0", "5", "0", ".", "2", "5", " ", "c", "f", "s">>,
      <<"1", ".", "2", ".", "3">> }

DtFamily ==
    {pre \o d \o <<" ">> \o tm \o mer :
        pre \in DtPrefixes, d \in DtDates, tm \in DtTimes, mer \in DtMeridiems}
    \cup {d \o <<"T">> \o tm \o off : d \in DtDates, tm \in DtTimes, off \in DtOffsets}

DatetimeInputs ==
    {Str(s) : s \in DtFamily \cup DtSamples \cup Texts({"/", " ", "T", "1", ":"}, MaxLen)}
    \cup {NoValue, PyInt(0), PyInt(5), PyDict}

FloatInputs ==
    {Str(s) : s \in FloatSamples \cup Texts({"0", "1", "5", ".", "-", " ", "f", ","}, MaxLen)}
    \cup {NoValue, PyDict, PyInt(0), PyInt(5), PyInt(0 - 3)}
    \cup {Norm(FALSE, 0, 0), Norm(TRUE, 0, 0), Norm(FALSE, 6813, 0 - 1),
          Norm(TRUE, 25, 0 - 1), Norm(FALSE, 1, 16), Norm(FALSE, 1, 0 - 5)}

ENDPOINTS == {"FloodStatus/GetLakeLevelsGateOps", "GetForecastReferences",
              "FloodStatus/GetNarrativeSummary"}

\* How session.get(url), raise_for_status() and json() can end on an open client.
RESPONSES == {"json", "RequestError", "HTTPStatusError", "JSONDecodeError"}

(***************************************************************************)
(* The normalisers as a state machine: one call per behaviour, and for     *)
(* parse_float a second call on str() of the first result.                 *)
(***************************************************************************)
NoFetch == [call |-> "none"]

Init ==
    /\ \/ fn = "parse_datetime" /\ arg \in DatetimeInputs
       \/ fn = "parse_float" /\ arg \in FloatInputs
    /\ pc = "guard"
    /\ idx = 0
    /\ tried = <<>>
    /\ result = Unset
    /\ first = Unset
    /\ session = 0
    /\ clients = <<>>
    /\ ctx = "new"
    /\ last = NoFetch

Return(v) ==
    /\ result' = v
    /\ pc' = IF v.kind = "raise" THEN "raised" ELSE "done"

PatternName(i) ==
    CASE i = 1 -> "p1" [] i = 2 -> "p2" [] i = 3 -> "p3" [] i = 4 -> "p4"

\* The guard of parse_datetime.
DtGuard ==
    /\ fn = "parse_datetime" /\ pc = "guard"
    /\ IF Guard(arg) = Pass
       THEN pc' = "iso" /\ result' = result
       ELSE Return(Guard(arg))
    /\ UNCHANGED <<fn, arg, idx, tried, first, svars>>

\* try: if "T" in text: ... return datetime.fromisoformat(...)  except: pass
DtIso ==
    /\ fn = "parse_datetime" /\ pc = "iso"
    /\ IF Contains(arg.s, "T")
       THEN /\ tried' = Append(tried, "iso")
            /\ IF IsoAttempt(arg.s).kind = "datetime"
               THEN Return(IsoAttempt(arg.s)) /\ idx' = idx
               ELSE pc' = "patterns" /\ idx' = 1 /\ result' = result
       ELSE pc' = "patterns" /\ idx' = 1 /\ UNCHANGED <<tried, result>>
    /\ UNCHANGED <<fn, arg, first, svars>>

\* One turn of `for pattern in patterns`.
DtPattern ==
    /\ fn = "parse_datetime" /\ pc = "patterns" /\ idx <= Len(PATTERNS)
    /\ tried' = Append(tried, PatternName(idx))
    /\ LET r == PatternAttempt(arg.s, idx)
       IN IF r.kind = "nomatch" THEN idx' = NextPattern(idx) /\ UNCHANGED <<pc, result>>
          ELSE IF r.kind = "datetime" THEN Return(r) /\ idx' = idx
          ELSE IF PatternHandler(r) = "continue"
               THEN idx' = NextPattern(idx) /\ UNCHANGED <<pc, result>>
          ELSE Return(r) /\ idx' = idx
    /\ UNCHANGED <<fn, arg, first, svars>>

\* The loop is over: return None.
DtReturnNone ==
    /\ fn = "parse_datetime" /\ pc = "patterns" /\ idx > Len(PATTERNS)
    /\ Return(NoValue)
    /\ UNCHANGED <<fn, arg, idx, tried, first, svars>>

\* A call of parse_float.
FlCall ==
    /\ fn = "parse_float" /\ pc = "guard"
    /\ Return(parse_float(arg))
    /\ UNCHANGED <<fn, arg, idx, tried, first, svars>>

\* parse_float(str(parse_float(x))): the first result, printed, is the next argument.
FlReparse ==
    /\ fn = "parse_float" /\ pc = "done"
    /\ first = Unset /\ result.kind = "float"
    /\ first' = result
    /\ arg' = Str(FloatRepr(result))
    /\ pc' = "guard"
    /\ result' = Unset
    /\ UNCHANGED <<fn, idx, tried, svars>>

Next == DtGuard \/ DtIso \/ DtPattern \/ DtReturnNone \/ FlCall \/ FlReparse

Spec == Init /\ [][Next]_vars

(***************************************************************************)
(* The scraper as an async context manager.                                *)
(***************************************************************************)
ScraperInit ==
    /\ fn = "none" /\ arg = Unset /\ pc = "done" /\ idx = 0
    /\ tried = <<>> /\ result = Unset /\ first = Unset
    /\ session = 0
    /\ clients = <<>>
    /\ ctx = "new"
    /\ last = NoFetch

\* __init__: a new scraper; the clients of earlier ones stay as they are.
New ==
    /\ session' = 0
    /\ ctx' = "new"
    /\ last' = NoFetch
    /\ UNCHANGED <<clients, nvars>>

\* __aenter__: self.session = httpx.AsyncClient(timeout=self.TIMEOUT)
AEnter ==
    /\ Len(clients) < MaxClients
    /\ clients' = Append(clients, "open")
    /\ session' = Len(clients) + 1
    /\ ctx' = "entered"
    /\ UNCHANGED <<last, nvars>>

\* __aexit__: if self.session: await self.session.aclose()
AExit ==
    /\ clients' = IF session # 0 THEN [clients EXCEPT ![session] = "closed"] ELSE clients
    /\ ctx' = "exited"
    /\ UNCHANGED <<session, last, nvars>>

\* How fetch_api_data ends once it is past its guard: a closed client refuses
\* the request with a RuntimeError of httpx's own, which `except Exception`
\* turns into HTTPException(500).
FetchOutcome(client, response) ==
    IF client = "closed" THEN "HTTPException500"
    ELSE CASE response = "json" -> "returned"
           [] response = "RequestError" -> "HTTPException503"
           [] OTHER -> "HTTPException500"

\* if not self.session: raise RuntimeError(...)
SessionGuard == session = 0

FetchApiData(endpoint, response) ==
    /\ last' = IF SessionGuard
               THEN [call |-> "fetch_api_data", endpoint |-> endpoint, ctx |-> ctx,
                     touched |-> FALSE, sent |-> FALSE, outcome |-> "RuntimeError"]
               ELSE [call |-> "fetch_api_data", endpoint |-> endpoint, ctx |-> ctx,
                     touched |-> TRUE, sent |-> clients[session] = "open",
                     outcome |-> FetchOutcome(clients[session], response)]
    /\ UNCHANGED <<session, clients, ctx, nvars>>

ScraperNext ==
    \/ New
    \/ AEnter
    \/ AExit
    \/ \E e \in ENDPOINTS, r \in RESPONSES : FetchApiData(e, r)

ScraperSpec == ScraperInit /\ [][ScraperNext]_vars

(***************************************************************************)
(* Properties.                                                             *)
(***************************************************************************)
Finished == pc \in {"done", "raised"}

DatetimeOf(y, m, d, hh, mi, ss) ==
    [kind |-> "datetime", year |-> y, month |-> m, day |-> d,
     hour |-> hh, minute |-> mi, second |-> ss, tz |-> <<>>]

ValidDate(y, m, d) == y \in 1..9999 /\ m \in 1..12 /\ d \in 1..DaysInMonth(y, m)

\* A text "M/D/YYYY H:MM AM" or "M/D/YYYY H:MM PM": a valid date, the hour in 1..12.
IsSlashMinutesMeridiem(s) ==
    LET tok == Split(s, " ")
        dt  == Split(tok[1], "/")
        tm  == Split(tok[2], ":")
    IN /\ Len(tok) = 3
       /\ Len(dt) = 3 /\ Len(tm) = 2
       /\ \A k \in 1..3 : dt[k] # <<>> /\ AllDigits(dt[k])
       /\ \A k \in 1..2 : tm[k] # <<>> /\ AllDigits(tm[k])
       /\ Len(dt[1]) <= 2 /\ Len(dt[2]) <= 2 /\ Len(dt[3]) = 4
       /\ Len(tm[1]) <= 2 /\ Len(tm[2]) = 2
       /\ ValidDate(IntOf(dt[3]), IntOf(dt[1]), IntOf(dt[2]))
       /\ IntOf(tm[1]) \in 1..12 /\ IntOf(tm[2]) \in 0..59
       /\ tok[3] \in {<<"A", "M">>, <<"P", "M">>}

TwelveHourValue(s) ==
    LET tok == Split(s, " ")
        dt  == Split(tok[1], "/")
        tm  == Split(tok[2], ":")
        h   == IntOf(tm[1]) % 12
    IN DatetimeOf(IntOf(dt[3]), IntOf(dt[1]), IntOf(dt[2]),
                  IF tok[3] = <<"P", "M">> THEN h + 12 ELSE h, IntOf(tm[2]), 0)

\* C1: parse_datetime of "M/D/YYYY H:MM AM|PM" (valid date, hour 1..12) returns
\* the 12-hour reading of it with seconds = 0; "1/5/2024 1:45 PM" gives
\* 2024-01-05 13:45:00.
C1_SlashMinutesMeridiem ==
    (fn = "parse_datetime" /\ Finished /\ arg.kind = "str"
        /\ IsSlashMinutesMeridiem(arg.s))
    => result = TwelveHourValue(arg.s)

ToFloat(x) == IF x.kind = "int" THEN FloatOfInt(x.v) ELSE x

\* C2: parse_float of an int or float v, zero included, returns float(v) and
\* never "no value".
C2_NumericFastPath ==
    (fn = "parse_float" /\ Finished /\ first = Unset /\ arg.kind \in {"int", "float"})
    => (result.kind = "float" /\ FloatEq(result, ToFloat(arg)))

\* C3: for a string or None argument, parse_datetime and parse_float never
\* raise: the call is at a position with a next step until it returns a
\* datetime, a float or None.
C3_NeverRaises ==
    arg.kind \in {"str", "None"}
    => /\ pc # "raised"
       /\ result.kind # "raise"
       /\ pc = "done" =>
            result.kind \in {"None", IF fn = "parse_float" THEN "float" ELSE "datetime"}
       /\ pc # "done" =>
            \/ pc = "guard"
            \/ fn = "parse_datetime" /\ pc = "iso"
            \/ fn = "parse_datetime" /\ pc = "patterns" /\ idx \in 1..(Len(PATTERNS) + 1)

\* A call that returned None after the combined format and a matched pattern
\* both raised inside it.
C3_Witness ==
    /\ fn = "parse_datetime" /\ pc = "done" /\ arg.kind = "str"
    /\ result = NoValue
    /\ Len(tried) = 5
    /\ IsoAttempt(arg.s).kind = "raise"
    /\ \E i \in 1..4 : PatternAttempt(arg.s, i).kind = "raise"

\* A text "YYYY-MM-DDTHH:MM:SS" with a valid date and time, and nothing, "Z",
\* "+HH:MM" or "-HH:MM" after it.
IsCombined(s) ==
    LET suffix == SubSeq(s, 20, Len(s))
    IN /\ Len(s) >= 19
       /\ \A k \in 1..19 :
            IF k \in {5, 8} THEN s[k] = "-"
            ELSE IF k = 11 THEN s[k] = "T"
            ELSE IF k \in {14, 17} THEN s[k] = ":"
            ELSE IsDigit(s[k])
       /\ ValidDate(IntOf(SubSeq(s, 1, 4)), IntOf(SubSeq(s, 6, 7)), IntOf(SubSeq(s, 9, 10)))
       /\ IntOf(SubSeq(s, 12, 13)) \in 0..23
       /\ IntOf(SubSeq(s, 15, 16)) \in 0..59
       /\ IntOf(SubSeq(s, 18, 19)) \in 0..59
       /\ \/ suffix = <<>>
          \/ suffix = <<"Z">>
          \/ /\ Len(suffix) = 6
             /\ suffix[1] \in {"+", "-"}
             /\ suffix[4] = ":"
             /\ \A k \in {2, 3, 5, 6} : IsDigit(suffix[k])

\* C4: parse_datetime of "YYYY-MM-DDTHH:MM:SS" with an optional "Z", "+HH:MM"
\* or "-HH:MM" returns the naive datetime of exactly that date and time: the
\* offset is dropped, not applied.
C4_CombinedTimestamp ==
    (fn = "parse_datetime" /\ Finished /\ arg.kind = "str" /\ IsCombined(arg.s))
    => result = DatetimeOf(IntOf(SubSeq(arg.s, 1, 4)), IntOf(SubSeq(arg.s, 6, 7)),
                           IntOf(SubSeq(arg.s, 9, 10)), IntOf(SubSeq(arg.s, 12, 13)),
                           IntOf(SubSeq(arg.s, 15, 16)), IntOf(SubSeq(arg.s, 18, 19)))

C4_Witness ==
    /\ fn = "parse_datetime" /\ pc = "done"
    /\ arg = Str(<<"2", "0", "2", "4", "-", "0", "1", "-", "0", "5", "T", "1", "3", ":", "4", "5", ":", "0", "0", "-", "0", "6", ":", "0", "0">>)
    /\ tried = <<"iso">>
    /\ result = DatetimeOf(2024, 1, 5, 13, 45, 0)

C5_Sentinels ==
    { <<>>, <<"/">>, <<"-", "-">>, <<"N", "/", "A">>, <<"n", "/", "a">>,
      <<"N", "/", "a">>, <<"n", "/", "A">> }

\* C5: parse_float returns None for an absent argument, "", "/", "--" and
\* N/A in any letter case.
C5_SentinelsGiveNoValue ==
    (fn = "parse_float" /\ Finished
        /\ (arg = NoValue \/ (arg.kind = "str" /\ arg.s \in C5_Sentinels)))
    => result = NoValue

C5_Witness ==
    /\ fn = "parse_float" /\ pc = "done"
    /\ arg = Str(<<"N", "/", "a">>)
    /\ result = NoValue

\* Whitespace around nothing or around one "/".
IsBlankOrSlash(s) ==
    /\ \A k \in 1..Len(s) : s[k] \in Whitespace \cup {"/"}
    /\ Cardinality({k \in 1..Len(s) : s[k] = "/"}) <= 1

\* C6: parse_datetime returns None for None and for a text that, trimmed of
\* whitespace, is empty or is "/".
C6_BlankGivesNoValue ==
    (fn = "parse_datetime" /\ Finished
        /\ (arg = NoValue \/ (arg.kind = "str" /\ IsBlankOrSlash(arg.s))))
    => result = NoValue

\* " / ": past the guard, through every pattern, and None at the end.
C6_Witness ==
    /\ fn = "parse_datetime" /\ pc = "done"
    /\ arg = Str(<<" ", "/", " ">>)
    /\ tried = <<"p1", "p2", "p3", "p4">>
    /\ result = NoValue

\* The reference of C7: what is left of the text once every character that is
\* not a digit, "." or "-" is deleted, read as a real number.
RefRemainder(s) == SelectSeq(s, LAMBDA c : c \in Digits \cup {".", "-"})
RefWellFormed(r) ==
    /\ Cardinality({k \in 1..Len(r) : r[k] = "."}) <= 1
    /\ \A k \in 1..Len(r) : r[k] = "-" => k = 1
    /\ \E k \in 1..Len(r) : r[k] \in Digits
RefNumber(r) ==
    LET digits == SelectSeq(r, LAMBDA c : c \in Digits)
        frac   == Cardinality({k \in 1..Len(r) :
                      r[k] \in Digits /\ \E j \in 1..k : r[j] = "."})
    IN Norm(r[1] = "-", IntOf(digits), 0 - frac)

\* C7: for a text that is no sentinel, parse_float is the reference: the number
\* the remainder reads as when it is a well-formed real, None otherwise.
C7_MatchesReference ==
    (fn = "parse_float" /\ Finished /\ arg.kind = "str"
        /\ arg.s \notin {<<>>} \cup FLOAT_SENTINELS)
    => result = IF RefWellFormed(RefRemainder(arg.s))
                THEN RefNumber(RefRemainder(arg.s))
                ELSE NoValue

C7_Witness ==
    /\ fn = "parse_float" /\ pc = "done"
    /\ arg = Str(<<"1", ",", "2", "3", "4", ".", "5">>)
    /\ result = Norm(FALSE, 12345, 0 - 1)

\* C8: whenever parse_float(x) is a number, parse_float(str(parse_float(x)))
\* equals it.
C8_Idempotent ==
    (fn = "parse_float" /\ Finished /\ first # Unset)
    => (result.kind = "float" /\ FloatEq(result, first))

\* The strategies of parse_datetime for a text, in the order they are due.
StrategyOrder(text) ==
    (IF Contains(text, "T") THEN <<"iso">> ELSE <<>>) \o <<"p1", "p2", "p3", "p4">>

StrategyOutcome(text, name) ==
    CASE name = "iso" -> IsoAttempt(text)
      [] name = "p1" -> PatternAttempt(text, 1)
      [] name = "p2" -> PatternAttempt(text, 2)
      [] name = "p3" -> PatternAttempt(text, 3)
      [] name = "p4" -> PatternAttempt(text, 4)

Succeeds(text, name) == StrategyOutcome(text, name).kind = "datetime"

\* C9: past the guard, the strategies are tried in the fixed order (the
\* combined format first when the text holds a "T", then the four patterns),
\* a failed one never ends the call, the value returned is that of the first
\* strategy that succeeds, and None is returned only when none does.
C9_FirstSuccessWins ==
    (fn = "parse_datetime" /\ arg.kind = "str" /\ pc \in {"patterns", "done", "raised"}
        /\ Guard(arg) = Pass)
    => LET order == StrategyOrder(arg.s)
           wins  == {k \in 1..Len(order) : Succeeds(arg.s, order[k])}
       IN /\ pc # "raised"
          /\ Len(tried) <= Len(order)
          /\ \A k \in 1..Len(tried) : tried[k] = order[k]
          /\ \A k \in 1..(Len(tried) - 1) : k \notin wins
          /\ pc = "done" =>
               IF wins = {}
               THEN result = NoValue /\ tried = order
               ELSE \E k \in wins :
                      /\ \A j \in wins : k <= j
                      /\ Len(tried) = k
                      /\ result = StrategyOutcome(arg.s, order[k])

\* The combined format failed, a pattern matched and its strict parse raised,
\* and a later pattern gave the value.
C9_Witness ==
    /\ fn = "parse_datetime" /\ pc = "done" /\ arg.kind = "str"
    /\ result.kind = "datetime"
    /\ \E k \in 1..(Len(tried) - 1) : StrategyOutcome(arg.s, tried[k]).kind = "raise"
    /\ tried[Len(tried)] \in {"p3", "p4"}

\* C10: fetch_api_data sends a request only while the context is entered and
\* not exited; before __aenter__ and after __aexit__ it raises the RuntimeError
\* of its guard without touching the session.
C10_GuardOutsideContext ==
    last.call = "fetch_api_data"
    => /\ last.sent => last.ctx = "entered"
       /\ last.ctx # "entered" => (last.outcome = "RuntimeError" /\ ~last.touched)

=============================================================================
